---- MODULE Spec2Model ----
(***************************************************************************)
(* Model of the job orchestration engine of DouyinStyleAnalyzer:           *)
(*   services/task_manager.py  TaskManager (admission, queue, workers)     *)
(*   models/task.py            AnalysisTask.update_status                  *)
(*   api/tasks.py              the cancel and delete endpoints             *)
(* One TaskManager instance is modelled.  The worker threads that have not *)
(* returned are the bag `threads`: the code never uses a thread's identity,*)
(* only its task id and where it is in _execute_task_with_app.  A step of  *)
(* a worker is one stage of the pipeline or one pass through the finally   *)
(* clause.                                                                 *)
(* Further specifications follow single parts of the engine more closely:  *)
(*   RetrySpec       utils/retry.py  RetryManager.retry                    *)
(*   HistorySpec     models/video.py  the retry history of a video         *)
(*   ProgressSpec    models/task.py  AnalysisTask.update_progress          *)
(*   PipelineSpec    one job's worker, stage by stage                      *)
(*   TranscribeSpec  _transcribe_videos, video by video                    *)
(*   DelaySpec       utils/retry.py  RetryManager.calculate_delay          *)
(*   RerunSpec       the rows of video_data over the runs of one job       *)
(*   ApiSpec         api/tasks.py  the create, queue-status and cancel     *)
(*                   endpoints, each with the TaskManager it uses          *)
(*   PipelineFairSpec  PipelineSpec with the worker scheduled fairly       *)
(***************************************************************************)
EXTENDS Integers, Sequences, FiniteSets, Bags, TLC

\* ------------------------------------------------------------------ bounds
\* Number of job ids the callers use.
NumTasks == 2
\* Number of worker threads started in one behaviour: the callers stop
\* submitting when started threads plus queue entries reach it.
MaxThreads == 3
\* Largest capacity (max_concurrent_tasks) a TaskManager is configured with.
MaxCapacity == 1

\* ------------------------------------------------------- program constants
\* task_manager.py:87  max_retries = 3
max_retries == 3

Tasks == 1..NumTasks

\* TaskStatus (models/task.py:18-24)
PENDING == "pending"
RUNNING == "running"
COMPLETED == "completed"
FAILED == "failed"
CANCELLED == "cancelled"
TaskStatus == {PENDING, RUNNING, COMPLETED, FAILED, CANCELLED}
Terminal == {COMPLETED, FAILED, CANCELLED}


\* Absent optional arguments / NULL columns.
NoMsg == "none"
NullTime == "null"
\* The error messages the code writes (their text is abstracted to its kind).
MsgRetry == "retry"      \* task_manager.py:100  "第 n 次重试"
MsgFailed == "failed"    \* task_manager.py:147  "任务执行失败: ... (已重试 3 次)"
MsgCancel == "cancel"    \* api/tasks.py:343     "用户取消"

\* china_now() (models/task.py:13-15) returns a new value on every call.  A
\* timestamp column keeps which of two alternating values was written last,
\* so that every write of the column changes it.
china_now(old) == IF old = "even" THEN "odd" ELSE "even"

VARIABLES
    max_concurrent_tasks,  \* TaskManager.max_concurrent_tasks
    running_tasks,         \* keys of TaskManager.running_tasks
    task_queue,            \* TaskManager.task_queue, the task ids in order
    threads,               \* the worker threads that have not returned
    tasks,                 \* the analysis_tasks table, by task id
    accepted,              \* ids for which start_analysis_task returned True
    spawned,               \* number of worker threads started so far
    task,                  \* the row of the one job whose pipeline is followed
                           \* item by item
    video_data,            \* the video_data rows of that job, by video
    worker,                \* the local variables of the thread running it
    retry                  \* the local variables of a RetryManager.retry call

\* The variables of the item-level view of one pipeline; the scheduler's
\* methods do not touch them.
pipeline_vars == <<task, video_data, worker, retry>>

vars == <<max_concurrent_tasks, running_tasks, task_queue, threads, tasks,
          accepted, spawned, task, video_data, worker, retry>>

\* No job is followed item by item, and no retry call is in progress.
NoRetry == [state |-> "none"]
NoWorker == [pc |-> "none"]
NoVideos == <<>>

\* Positions of a worker in _execute_task_with_app.
PcBegin == "begin"            \* top of the while loop (line 90)
PcScrape == "scrape"          \* before _scrape_videos_with_retry (line 108)
PcTranscribe == "transcribe"  \* before _transcribe_videos_with_retry (line 123)
PcSave == "save"              \* before _save_results (line 126)
PcSleep == "sleep"            \* in time.sleep of the except clause (line 142)
PcFinally == "finally"        \* after break / return, before the finally clause
PcUnwind == "unwind"          \* an exception raised inside the except clause
                              \* (line 145-147) is leaving through finally

\* The tasks some worker thread is executing, and the number of workers.
WorkerTasks == {th.task_id : th \in BagToSet(threads)}
NumWorkers == BagCardinality(threads)
WorkersOf(t) ==
    BagCardinality([th \in {x \in BagToSet(threads) : x.task_id = t} |-> threads[th]])
QueuedIds == {task_queue[k] : k \in 1..Len(task_queue)}

\* A new row as the create-task endpoint inserts it (column defaults).
NewTask ==
    [exists |-> TRUE, status |-> PENDING, error_message |-> NoMsg,
     completed_at |-> NullTime]

\* The row of a deleted task.
NoTask ==
    [exists |-> FALSE, status |-> PENDING, error_message |-> NoMsg,
     completed_at |-> NullTime]

\* AnalysisTask.update_status (models/task.py:126-143) applied to row r.  Of the columns it writes, the row keeps status, error_message
\* and completed_at; current_step, progress, started_at and updated_at are
\* written and never read by the scheduler or the worker loop.
update_status(r, status, error_message) ==
    [r EXCEPT
        !.status = status,
        !.error_message = IF error_message # NoMsg THEN error_message ELSE @,
        !.completed_at = IF status \in Terminal THEN china_now(@) ELSE @]

\* threading.Thread(...).start() for task t: the new worker, at the top of
\* its loop with retry_count = 0 (task_manager.py:68-73, 87-88).
NewThread(t) ==
    [task_id |-> t, pc |-> PcBegin, retry_count |-> 0]

Init ==
    /\ max_concurrent_tasks \in 1..MaxCapacity
    /\ running_tasks = {}
    /\ task_queue = <<>>
    /\ threads = EmptyBag
    /\ tasks = [t \in Tasks |-> NewTask]
    /\ accepted = {}
    /\ spawned = 0
    /\ task = NoTask
    /\ video_data = NoVideos
    /\ worker = NoWorker
    /\ retry = NoRetry

\* ------------------------------------------------------------ TaskManager
\* The part of the TaskManager the lock guards, as a value the methods below
\* transform: [running, queue, threads] and the value the method returned.
Sched ==
    [running |-> running_tasks, queue |-> task_queue, threads |-> threads,
     spawned |-> spawned]

\* TaskManager._start_task_immediately (task_manager.py:57-82).  start_ok is
\* whether thread.start() returned; when it raised, the except clause
\* returns False and the entry made at line 61 stays in running_tasks.
start_task_immediately(s, t, start_ok) ==
    IF start_ok
    THEN [s EXCEPT !.running = @ \cup {t},
                   !.threads = @ (+) SetToBag({NewThread(t)}),
                   !.spawned = @ + 1]
    ELSE [s EXCEPT !.running = @ \cup {t}]

\* _start_next_queued_task without the capacity test of line 164.
start_next_queued_task_unchecked(s, start_ok) ==
    IF s.queue # <<>>
    THEN start_task_immediately([s EXCEPT !.queue = Tail(@)], Head(s.queue), start_ok)
    ELSE s

\* TaskManager._start_next_queued_task (task_manager.py:161-174).
start_next_queued_task(s, start_ok) ==
    IF s.queue # <<>> /\ Cardinality(s.running) < max_concurrent_tasks
    THEN start_task_immediately([s EXCEPT !.queue = Tail(@)], Head(s.queue), start_ok)
    ELSE s

\* The finally clause of _execute_task_with_app (task_manager.py:151-159).
release_and_promote(s, t, start_ok) ==
    start_next_queued_task([s EXCEPT !.running = @ \ {t}], start_ok)

\* TaskManager.start_analysis_task (task_manager.py:30-55): the value it
\* returns for task t.
start_result(t, start_ok) ==
    IF t \in running_tasks THEN FALSE
    ELSE IF Cardinality(running_tasks) >= max_concurrent_tasks THEN TRUE
    ELSE start_ok

\* TaskManager.start_analysis_task (task_manager.py:30-55): the scheduler
\* state it leaves.  Only running_tasks is looked up at line 34.
start_effect(t, start_ok) ==
    IF t \in running_tasks THEN Sched
    ELSE IF Cardinality(running_tasks) >= max_concurrent_tasks
    THEN [Sched EXCEPT !.queue = Append(@, t)]
    ELSE start_task_immediately(Sched, t, start_ok)

\* TaskManager.start_analysis_task (task_manager.py:30-55).
start_analysis_task(t) ==
    \E start_ok \in BOOLEAN :
        /\ t \in running_tasks \/ spawned + Len(task_queue) < MaxThreads
        /\ LET s == start_effect(t, start_ok)
               r == start_result(t, start_ok)
           IN  /\ running_tasks' = s.running
               /\ task_queue' = s.queue
               /\ threads' = s.threads
               /\ spawned' = s.spawned
               /\ accepted' = IF r THEN accepted \cup {t} ELSE accepted
        /\ UNCHANGED <<max_concurrent_tasks, tasks>>
        /\ UNCHANGED pipeline_vars

\* cancel_task dropping the whole active set when the id is not in it.
cancel_effect_clear(t) ==
    IF t \in running_tasks THEN [Sched EXCEPT !.running = @ \ {t}]
    ELSE [Sched EXCEPT !.running = {}]

\* TaskManager.cancel_task (task_manager.py:501-516): the scheduler state it
\* leaves.  Nothing is signalled to the worker thread and the queue is not
\* looked at.
cancel_effect(t) ==
    IF t \in running_tasks THEN [Sched EXCEPT !.running = @ \ {t}] ELSE Sched

\* TaskManager.cancel_task (task_manager.py:501-516): the value it returns.
cancel_result(t) == t \in running_tasks

\* TaskManager.cancel_task (task_manager.py:501-516), called on its own
\* (cancel_analysis_task, task_manager.py:546-548).
cancel_task(t) ==
    /\ LET s == cancel_effect(t)
       IN  /\ running_tasks' = s.running
           /\ task_queue' = s.queue
           /\ threads' = s.threads
               /\ spawned' = s.spawned
    /\ UNCHANGED <<max_concurrent_tasks, tasks, accepted>>
    /\ UNCHANGED pipeline_vars

\* The cancel endpoint (api/tasks.py:314-364): the row is written FAILED
\* first, then the scheduler is asked to cancel.
api_cancel_task(t) ==
    /\ tasks[t].exists
    /\ tasks[t].status \in {PENDING, RUNNING}
    /\ tasks' = [tasks EXCEPT ![t] = update_status(@, FAILED, MsgCancel)]
    /\ LET s == cancel_effect(t)
       IN  /\ running_tasks' = s.running
           /\ task_queue' = s.queue
           /\ threads' = s.threads
               /\ spawned' = s.spawned
    /\ UNCHANGED <<max_concurrent_tasks, accepted>>
    /\ UNCHANGED pipeline_vars

\* The delete endpoint (api/tasks.py:518-556): the row is removed whatever
\* its status.
delete_task(t) ==
    /\ tasks[t].exists
    /\ tasks' = [tasks EXCEPT ![t] = NoTask]
    /\ UNCHANGED <<max_concurrent_tasks, running_tasks, task_queue, threads, accepted, spawned>>
    /\ UNCHANGED pipeline_vars

\* ------------------------------------------------- _execute_task_with_app
\* Worker th moves to th2: the bag of workers afterwards.
moved(th, th2) == (threads (-) SetToBag({th})) (+) SetToBag({th2})

\* The except clause waiting and running the pipeline again whatever
\* retry_count is.
except_thread_again(th, write_ok) ==
    [th EXCEPT !.retry_count = @ + 1, !.pc = PcSleep]

\* The except clause (task_manager.py:135-149) entered by worker th for the
\* row r of its task.  write_ok is whether the FAILED write of line 147
\* commits; when it raises, the exception leaves the thread through the
\* finally clause.
except_thread(th, write_ok) ==
    [th EXCEPT !.retry_count = @ + 1,
               !.pc = IF th.retry_count + 1 <= max_retries THEN PcSleep
                      ELSE IF write_ok THEN PcFinally ELSE PcUnwind]

except_row(th, r, write_ok) ==
    IF th.retry_count + 1 <= max_retries \/ ~r.exists \/ ~write_ok
    THEN r
    ELSE update_status(r, FAILED, MsgFailed)

\* Lines 92-105: the row is read; a missing row ends the thread (return at
\* line 95, through finally); otherwise the row is written RUNNING /
\* INITIALIZING, with the retry message on a re-run.
begin_row(th, r) ==
    update_status(r, RUNNING, IF th.retry_count > 0 THEN MsgRetry ELSE NoMsg)

WorkerBegin(th) ==
    /\ th.pc = PcBegin
    /\ LET t == th.task_id
       IN  \E ok \in BOOLEAN, write_ok \in BOOLEAN :
            IF ~tasks[t].exists
            THEN /\ threads' = moved(th, [th EXCEPT !.pc = PcFinally])
                 /\ tasks' = tasks
            ELSE IF ok
            THEN /\ threads' = moved(th, [th EXCEPT !.pc = PcScrape])
                 /\ tasks' = [tasks EXCEPT ![t] = begin_row(th, @)]
            ELSE /\ threads' = moved(th, except_thread(th, write_ok))
                 /\ tasks' = [tasks EXCEPT ![t] = except_row(th, @, write_ok)]
    /\ UNCHANGED <<max_concurrent_tasks, running_tasks, task_queue, accepted, spawned>>
    /\ UNCHANGED pipeline_vars

\* Lines 108-119 with _scrape_videos (215-294): the row is written RUNNING /
\* SCRAPING; a non-empty list of videos moves it to DOWNLOADING; an empty
\* list (every failure inside _scrape_videos returns one) raises at line 110.
scrape_row(r, found) ==
    IF found
    THEN update_status(update_status(r, RUNNING, NoMsg), RUNNING, NoMsg)
    ELSE update_status(r, RUNNING, NoMsg)

WorkerScrape(th) ==
    /\ th.pc = PcScrape
    /\ LET t == th.task_id
       IN  \E found \in BOOLEAN, enable_transcription \in BOOLEAN, write_ok \in BOOLEAN :
            IF found /\ tasks[t].exists
            THEN /\ threads' = moved(th, [th EXCEPT !.pc = IF enable_transcription
                                                          THEN PcTranscribe ELSE PcSave])
                 /\ tasks' = [tasks EXCEPT ![t] = scrape_row(@, TRUE)]
            ELSE /\ threads' = moved(th, except_thread(th, write_ok))
                 /\ tasks' = [tasks EXCEPT ![t] =
                        except_row(th, IF @.exists THEN scrape_row(@, FALSE) ELSE @,
                                   write_ok)]
    /\ UNCHANGED <<max_concurrent_tasks, running_tasks, task_queue, accepted, spawned>>
    /\ UNCHANGED pipeline_vars

\* Line 123 with _transcribe_videos (296-413): the row is written RUNNING /
\* TRANSCRIBING and every video is processed; the function catches every
\* exception and returns, so the stage never raises.
transcribe_row(r) ==
    IF r.exists THEN update_status(r, RUNNING, NoMsg) ELSE r

WorkerTranscribe(th) ==
    /\ th.pc = PcTranscribe
    /\ threads' = moved(th, [th EXCEPT !.pc = PcSave])
    /\ tasks' = [tasks EXCEPT ![th.task_id] = transcribe_row(@)]
    /\ UNCHANGED <<max_concurrent_tasks, running_tasks, task_queue, accepted, spawned>>
    /\ UNCHANGED pipeline_vars

\* Lines 126-133 with _save_results (456-499): the row is written RUNNING /
\* FINALIZING; with a result file it is written COMPLETED and the loop is
\* left (break); without one line 133 raises.
save_row(r, saved) ==
    IF saved
    THEN update_status(update_status(r, RUNNING, NoMsg), COMPLETED, NoMsg)
    ELSE update_status(r, RUNNING, NoMsg)

WorkerSave(th) ==
    /\ th.pc = PcSave
    /\ LET t == th.task_id
       IN  \E saved \in BOOLEAN, write_ok \in BOOLEAN :
            IF saved /\ tasks[t].exists
            THEN /\ threads' = moved(th, [th EXCEPT !.pc = PcFinally])
                 /\ tasks' = [tasks EXCEPT ![t] = save_row(@, TRUE)]
            ELSE /\ threads' = moved(th, except_thread(th, write_ok))
                 /\ tasks' = [tasks EXCEPT ![t] =
                        except_row(th, IF @.exists THEN save_row(@, FALSE) ELSE @,
                                   write_ok)]
    /\ UNCHANGED <<max_concurrent_tasks, running_tasks, task_queue, accepted, spawned>>
    /\ UNCHANGED pipeline_vars

\* The workers after worker th has passed the finally clause: th is back at
\* the top of the loop after the sleep of a retry (line 90), and has
\* returned after break or return.
after_finally(th) ==
    IF th.pc = PcSleep
    THEN moved(th, [th EXCEPT !.pc = PcBegin])
    ELSE threads (-) SetToBag({th})

\* The finally clause (task_manager.py:151-159), run at the end of every
\* pass through the loop body: under the lock the task id is removed from
\* running_tasks and the head of the queue is started.
WorkerFinally(th) ==
    /\ th.pc \in {PcSleep, PcFinally, PcUnwind}
    /\ \E start_ok \in BOOLEAN :
        LET s == release_and_promote([Sched EXCEPT !.threads = after_finally(th)],
                                     th.task_id, start_ok)
        IN  /\ running_tasks' = s.running
            /\ task_queue' = s.queue
            /\ threads' = s.threads
               /\ spawned' = s.spawned
    /\ UNCHANGED <<max_concurrent_tasks, tasks, accepted>>
    /\ UNCHANGED pipeline_vars

Next ==
    \/ \E t \in Tasks : start_analysis_task(t)
    \/ \E t \in Tasks : cancel_task(t)
    \/ \E t \in Tasks : api_cancel_task(t)
    \/ \E t \in Tasks : delete_task(t)
    \/ \E th \in BagToSet(threads) : WorkerBegin(th)
    \/ \E th \in BagToSet(threads) : WorkerScrape(th)
    \/ \E th \in BagToSet(threads) : WorkerTranscribe(th)
    \/ \E th \in BagToSet(threads) : WorkerSave(th)
    \/ \E th \in BagToSet(threads) : WorkerFinally(th)

Spec == Init /\ [][Next]_vars

\* ----------------------------------------------------------------- claims
\* The number of entries of the wait queue that hold task t.
QueuedCopies(t) == Cardinality({k \in 1..Len(task_queue) : task_queue[k] = t})

\* A worker in a pipeline stage of its first run: it has started, and has
\* not yet been through the except or finally clause.
InFirstRun(th) == th.retry_count = 0 /\ th.pc \in {PcScrape, PcTranscribe, PcSave}

\* Worker th leaves the function in this step.
Returns(th) == th.pc = PcFinally /\ CopiesIn(th, threads') < CopiesIn(th, threads)

\* C1: the number of jobs whose pipeline a worker is executing (from admission
\* until the worker returns, waits between re-runs included) never exceeds
\* the capacity.
C1_WorkersWithinCapacity == Cardinality(WorkerTasks) <= max_concurrent_tasks

\* C2: no accepted job is dropped: every job for which submit returned
\* accepted is in the wait queue, or being executed by a worker, or in a
\* terminal status (a job whose row was deleted is not counted).
C2_NoAcceptedJobDropped ==
    \A t \in accepted :
        tasks[t].exists =>
            \/ t \in QueuedIds
            \/ t \in WorkerTasks
            \/ tasks[t].status \in Terminal

\* C3: cancel(jobId) on a job that is in the wait queue and not admitted
\* returns true and removes it from the queue (so that no worker is ever
\* started for that entry).
C3_CancelRemovesQueuedJob ==
    \A t \in Tasks :
        (t \in QueuedIds /\ t \notin running_tasks) =>
            /\ cancel_result(t)
            /\ \A k \in 1..Len(cancel_effect(t).queue) : cancel_effect(t).queue[k] # t

\* C4: admission is FIFO: while a job waits in the queue no job submitted
\* after it is started ahead of it, and the job started from the queue is
\* the one at its head.
C4_FifoAdmission ==
    [][/\ (spawned' > spawned /\ task_queue' = task_queue) => task_queue = <<>>
       /\ (spawned' > spawned /\ task_queue' # task_queue) =>
            /\ task_queue' = Tail(task_queue)
            /\ CopiesIn(NewThread(Head(task_queue)), threads')
                 > CopiesIn(NewThread(Head(task_queue)), threads)]_vars

\* C5: submit(jobId) is rejected and changes nothing whenever jobId is
\* already in the active set or in the wait queue, and no job id occurs more
\* than once across the active set and the wait queue.
C5_TrackedSubmitRejected ==
    /\ \A t \in running_tasks \cup QueuedIds : \A start_ok \in BOOLEAN :
           /\ ~start_result(t, start_ok)
           /\ start_effect(t, start_ok) = Sched
    /\ \A t \in Tasks :
           QueuedCopies(t) + (IF t \in running_tasks THEN 1 ELSE 0) <= 1

\* C6: at any moment at most one worker is executing the pipeline of a given
\* job id.
C6_OneWorkerPerJob == \A t \in Tasks : WorkersOf(t) <= 1

\* C7: once a job's status is Completed, Failed or Cancelled, no later step
\* changes the status or rewrites the completed timestamp (the deletion of
\* the row aside).
C7_TerminalSetOnce ==
    [][\A t \in Tasks :
          (tasks[t].exists /\ tasks[t].status \in Terminal /\ tasks'[t].exists) =>
              /\ tasks'[t].status = tasks[t].status
              /\ tasks'[t].completed_at = tasks[t].completed_at]_vars

\* C8: after cancel(jobId) for a running job the worker starts no further
\* stage.  Stated for the first worker a TaskManager starts while it is in
\* its first run, where the job id can have left running_tasks only through
\* cancel_task: from then on the worker stays where it is.
C8_CancelledWorkerStops ==
    [][\A th \in BagToSet(threads) :
          (spawned = 1 /\ InFirstRun(th) /\ th.task_id \notin running_tasks) =>
              BagIn(th, threads')]_vars

\* C9: when the pipeline has raised for the last time, the worker ends with
\* the job row in status Failed carrying the error message of the failure,
\* and the head of the wait queue (if any) is admitted.
C9_FailureWritesFailedAndPromotes ==
    [][\A th \in BagToSet(threads) :
          (th.retry_count > max_retries /\ Returns(th)) =>
              /\ tasks[th.task_id].exists =>
                    /\ tasks[th.task_id].status = FAILED
                    /\ tasks[th.task_id].error_message = MsgFailed
              /\ task_queue # <<>> =>
                    /\ task_queue' = Tail(task_queue)
                    /\ spawned' = spawned + 1]_vars

\* C10: no slot leaks: the active set holds exactly the admitted jobs whose
\* worker has not returned, so its size is the number of those workers.
C10_ActiveSetIsLiveWorkers ==
    /\ running_tasks = WorkerTasks
    /\ Cardinality(running_tasks) = NumWorkers

\* TaskManager.get_queue_status (task_manager.py:176-185).
get_queue_status ==
    [running_tasks |-> Cardinality(running_tasks),
     queued_tasks |-> Len(task_queue),
     max_concurrent |-> max_concurrent_tasks,
     running_task_ids |-> running_tasks,
     queued_task_ids |-> task_queue]

\* A caller that submits every job id once and never cancels or deletes:
\* the ids it has submitted are those accepted and those whose thread could
\* not be started (which stay in running_tasks).
Submitted == accepted \cup running_tasks

submit_once(t) ==
    /\ t \notin Submitted
    /\ start_analysis_task(t)

SubmitOnlyNext ==
    \/ \E t \in Tasks : submit_once(t)
    \/ \E th \in BagToSet(threads) : WorkerBegin(th)
    \/ \E th \in BagToSet(threads) : WorkerScrape(th)
    \/ \E th \in BagToSet(threads) : WorkerTranscribe(th)
    \/ \E th \in BagToSet(threads) : WorkerSave(th)
    \/ \E th \in BagToSet(threads) : WorkerFinally(th)

SubmitOnlySpec == Init /\ [][SubmitOnlyNext]_vars

\* C+1 distinct job ids have been submitted and no worker has returned.
OneOverCapacity ==
    /\ Cardinality(Submitted) = max_concurrent_tasks + 1
    /\ spawned = NumWorkers

\* C11: with capacity C, after C+1 submissions of distinct job ids and no
\* completion, the queue status reports C running jobs and 1 queued job; and
\* when one running job then completes, the queued job id is among the
\* running ids, with C running jobs and 0 queued.
C11_QueueStatusScenario ==
    /\ [](OneOverCapacity =>
            /\ get_queue_status.running_tasks = max_concurrent_tasks
            /\ get_queue_status.queued_tasks = 1)
    /\ [][\A th \in BagToSet(threads) :
            (OneOverCapacity /\ Returns(th) /\ Len(task_queue) = 1) =>
                /\ Head(task_queue) \in running_tasks'
                /\ Cardinality(running_tasks') = max_concurrent_tasks
                /\ task_queue' = <<>>]_vars

\* ------------------------------------------------ utils/retry.py RetryManager
\* Largest RetryConfig.max_retries a RetryManager is built with.
MaxRetries == 10

\* The values an operation returns.
Values == {"v1", "v2"}
NoValue == "none"
\* The exception raised by the k-th invocation of the operation is k; 0 is
\* None.
NoException == 0

\* RetryManager.should_retry (retry.py:46-59).  Every exception the except
\* clause of retry catches is an Exception, so the isinstance test is true.
should_retry(config_max_retries, attempt, exception) ==
    IF attempt >= config_max_retries THEN FALSE ELSE TRUE

\* RetryManager.retry (retry.py:61-83) entered with config.max_retries =
\* config_max_retries: the for loop is at its first value and nothing has been
\* invoked.  state is "loop" while the loop runs, "returned" after the
\* return of line 67 and "raised" after the raise of line 83.
retry_enter(config_max_retries) ==
    [state |-> "loop", max_retries |-> config_max_retries, attempt |-> 0,
     calls |-> 0, last_exception |-> NoException, value |-> NoValue,
     raised |-> NoException]

\* retry_raise with the first error kept instead of the last one.
retry_raise_first(r) ==
    [r EXCEPT !.state = "raised",
              !.raised = IF r.calls > 1 THEN 1 ELSE r.last_exception]

\* The statement after the for loop (retry.py:83).
retry_raise(r) == [r EXCEPT !.state = "raised", !.raised = r.last_exception]

\* retry_continue with the loop over range(max_retries).
retry_continue_short(r) ==
    IF r.attempt + 1 < r.max_retries
    THEN [r EXCEPT !.attempt = @ + 1]
    ELSE retry_raise(r)

\* The end of one pass through the loop body that did not break or return:
\* the next value of range(max_retries + 1), or the end of the loop.
retry_continue(r) ==
    IF r.attempt + 1 < r.max_retries + 1
    THEN [r EXCEPT !.attempt = @ + 1]
    ELSE retry_raise(r)

\* One pass through the loop body (retry.py:65-80): the operation is
\* invoked; it returns value, or raises.
retry_attempt(r, raises, value) ==
    LET c == [r EXCEPT !.calls = @ + 1]
    IN  IF ~raises
        THEN [c EXCEPT !.state = "returned", !.value = value]
        ELSE LET x == [c EXCEPT !.last_exception = c.calls]
             IN  IF ~should_retry(x.max_retries, x.attempt, x.last_exception)
                 THEN retry_raise(x)
                 ELSE retry_continue(x)

\* A RetryManager is built with some max_retries and retry is called.
RetryInit ==
    /\ max_concurrent_tasks = 1
    /\ running_tasks = {}
    /\ task_queue = <<>>
    /\ threads = EmptyBag
    /\ tasks = [t \in Tasks |-> NewTask]
    /\ accepted = {}
    /\ spawned = 0
    /\ task = NoTask
    /\ video_data = NoVideos
    /\ worker = NoWorker
    /\ retry \in {retry_enter(m) : m \in 0..MaxRetries}

\* The operation is invoked once more.
RetryAttempt ==
    /\ retry.state = "loop"
    /\ \E raises \in BOOLEAN, value \in Values :
          retry' = retry_attempt(retry, raises, value)
    /\ UNCHANGED <<max_concurrent_tasks, running_tasks, task_queue, threads,
                   tasks, accepted, spawned, task, video_data, worker>>

RetryNext == RetryAttempt

RetrySpec == RetryInit /\ [][RetryNext]_vars

\* C19: retry invokes the operation at most max_retries + 1 times and stops
\* at the first invocation that returns, whose value it returns: an operation
\* that failed on its first j invocations and then returned has been invoked
\* j + 1 times (j <= max_retries), one that always failed max_retries + 1
\* times; and while the loop runs every invocation so far has failed.
C19_RetryInvocations ==
    /\ retry.calls <= retry.max_retries + 1
    /\ retry.state = "loop" =>
          /\ retry.calls = retry.attempt
          /\ retry.calls <= retry.max_retries
          /\ retry.calls > 0 => retry.last_exception = retry.calls
    /\ retry.state = "returned" =>
          /\ retry.calls = retry.attempt + 1
          /\ retry.value \in Values
          /\ retry.last_exception = retry.calls - 1
    /\ retry.state = "raised" => retry.calls = retry.max_retries + 1

C19_Witness ==
    /\ retry.state = "returned"
    /\ retry.max_retries = 3
    /\ retry.calls = 3

\* C20: when every attempt has failed the call raises the error of the last
\* invocation of the operation, never another error and never a value.
C20_LastErrorRaised ==
    (retry.state # "loop" /\ retry.last_exception = retry.calls) =>
        /\ retry.state = "raised"
        /\ retry.raised = retry.calls
        /\ retry.raised # NoException
        /\ retry.value = NoValue

C20_Witness ==
    /\ retry.state = "raised"
    /\ retry.max_retries = 0
    /\ retry.raised = 1

\* ----------------------------------------------------- models/video.py VideoData
\* Number of errors the caller of add_retry_error appends.
MaxErrors == 25
\* Number of failures the caller records with update_status in between.
MaxRecorded == 2

\* video.py:205-206  the history keeps the most recent 20 records
HistoryLimit == 20

\* A NULL text column: the empty text, which the code's truth tests
\* (`if self.retry_errors:`) treat alike.
NullText == <<>>
\* The error messages written to an item (non-empty strings).
ErrorMessages == {"download", "transcribe"}

\* A video_data row as VideoData.create_video and the column defaults make
\* it (video.py:31-33, 51-53, 165-175).  Of its columns the row keeps
\* processing_status, retry_count and retry_errors; error_message,
\* last_retry_at, processed_at and the transcript columns are written and
\* not read by the code modelled here.
NewVideo ==
    [exists |-> TRUE, processing_status |-> "pending", retry_count |-> 0,
     retry_errors |-> NullText]

\* json.dumps of a list of error records (video.py:208): the text of the
\* list, each record written as its three values in the order of the dict's
\* keys.
json_dumps(error_history) ==
    [k \in 1..Len(error_history) |->
        <<error_history[k].retry_count, error_history[k].error_message,
          error_history[k].timestamp>>]

\* json.loads of such a text (video.py:192, 220).
json_loads(text) ==
    [k \in 1..Len(text) |->
        [retry_count |-> text[k][1], error_message |-> text[k][2],
         timestamp |-> text[k][3]]]

\* error_history[-20:] (video.py:206).
last_records(error_history) ==
    SubSeq(error_history, Len(error_history) - HistoryLimit + 1, Len(error_history))

\* add_retry_error keeping the oldest records, error_history[:20].
add_retry_error_oldest(v, error_message, now) ==
    LET error_history ==
            IF v.retry_errors # NullText THEN json_loads(v.retry_errors) ELSE <<>>
        appended ==
            Append(error_history,
                   [retry_count |-> v.retry_count, error_message |-> error_message,
                    timestamp |-> now])
    IN  [v EXCEPT !.retry_errors =
            json_dumps(IF Len(appended) > HistoryLimit
                       THEN SubSeq(appended, 1, HistoryLimit) ELSE appended)]

\* VideoData.add_retry_error (video.py:185-212) on row v at time now.  The
\* row is not committed here: the caller's next commit writes it.
add_retry_error(v, error_message, now) ==
    LET error_history ==
            IF v.retry_errors # NullText THEN json_loads(v.retry_errors) ELSE <<>>
        appended ==
            Append(error_history,
                   [retry_count |-> v.retry_count, error_message |-> error_message,
                    timestamp |-> now])
    IN  [v EXCEPT !.retry_errors =
            json_dumps(IF Len(appended) > HistoryLimit
                       THEN last_records(appended) ELSE appended)]

\* VideoData.get_retry_errors (video.py:214-224).
get_retry_errors(v) ==
    IF v.retry_errors # NullText THEN json_loads(v.retry_errors) ELSE <<>>

\* VideoData.update_status (video.py:133-144).
video_update_status(v, status, error_message) ==
    [v EXCEPT !.processing_status = status,
              !.retry_count = IF error_message # NoMsg THEN @ + 1 ELSE @]

\* A caller with one row (scripts/test_retry_mechanism.py:48-65): it appends
\* errors to the row's history and remembers, in order, what it appended.
HistoryInit ==
    /\ max_concurrent_tasks = 1
    /\ running_tasks = {}
    /\ task_queue = <<>>
    /\ threads = EmptyBag
    /\ tasks = [t \in Tasks |-> NewTask]
    /\ accepted = {}
    /\ spawned = 0
    /\ task = NoTask
    /\ video_data = <<NewVideo>>
    /\ worker = [pc |-> "test", now |-> 0, appended |-> <<>>]
    /\ retry = NoRetry

TestAddRetryError ==
    /\ worker.pc = "test"
    /\ Len(worker.appended) < MaxErrors
    /\ \E error_message \in {"download"} :
          /\ video_data' = [video_data EXCEPT ![1] =
                  add_retry_error(@, error_message, worker.now + 1)]
          /\ worker' = [worker EXCEPT
                  !.now = @ + 1,
                  !.appended = Append(@,
                      [retry_count |-> video_data[1].retry_count,
                       error_message |-> error_message,
                       timestamp |-> worker.now + 1])]
    /\ UNCHANGED <<max_concurrent_tasks, running_tasks, task_queue, threads,
                   tasks, accepted, spawned, task, retry>>

TestUpdateStatus ==
    /\ worker.pc = "test"
    /\ video_data[1].retry_count < MaxRecorded
    /\ video_data' = [video_data EXCEPT ![1] =
            video_update_status(@, "failed", "download")]
    /\ UNCHANGED <<max_concurrent_tasks, running_tasks, task_queue, threads,
                   tasks, accepted, spawned, task, worker, retry>>

HistoryNext == TestAddRetryError \/ TestUpdateStatus

HistorySpec == HistoryInit /\ [][HistoryNext]_vars

\* C16: after n errors have been appended to an item's retry history, the
\* history read back is the last min(n, 20) of them, in the order they were
\* appended.
C16_HistoryKeepsLast20 ==
    worker.pc = "test" =>
        LET n == Len(worker.appended)
            k == IF n < HistoryLimit THEN n ELSE HistoryLimit
        IN  /\ Len(get_retry_errors(video_data[1])) = k
            /\ get_retry_errors(video_data[1]) = SubSeq(worker.appended, n - k + 1, n)

C16_Witness ==
    /\ worker.pc = "test"
    /\ Len(worker.appended) = 25
    /\ Len(get_retry_errors(video_data[1])) = 20
    /\ get_retry_errors(video_data[1])[1].timestamp = 6

\* ------------------------------------------------- models/task.py progress
\* Python floats are IEEE-754 binary64, with a significand of 53 bits.  A
\* positive float is kept as the integer of its significand and a shift: its
\* value is limbs * 2^(-(Precision - 1) - shift).  The integer is written in
\* base 2^LimbBits, most significant limb first: a first limb, which is not
\* bounded, and LimbCount limbs below it.
Precision == 53
LimbBits == 13
LimbCount == (Precision - 1) \div LimbBits

\* 2^n for a small n >= 0.
RECURSIVE Pow2(_)
Pow2(n) == IF n = 0 THEN 1 ELSE 2 * Pow2(n - 1)

Limb == Pow2(LimbBits)

\* The number of binary digits of n > 0.
RECURSIVE bit_length(_)
bit_length(n) == IF n = 0 THEN 0 ELSE 1 + bit_length(n \div 2)

\* The integer limbs with x added to its n-th limb, the carry running
\* towards the first limb.
RECURSIVE add_at(_, _, _)
add_at(limbs, n, x) ==
    IF x = 0 THEN limbs
    ELSE IF n = 1 THEN [limbs EXCEPT ![1] = @ + x]
    ELSE add_at([limbs EXCEPT ![n] = (@ + x) % Limb], n - 1, (limbs[n] + x) \div Limb)

\* The integer whose lowest `dropped` bits are cut off, rounded to nearest,
\* ties to even: `inexact` tells that bits below the integer were lost
\* already.
round_nearest_even(limbs, dropped, inexact) ==
    LET last == Len(limbs)
        unit == Pow2(dropped)
        low == limbs[last] % unit
        odd == (limbs[last] \div unit) % 2 = 1
        cut == [limbs EXCEPT ![last] = @ - low]
        up == \/ 2 * low > unit
              \/ 2 * low = unit /\ (inexact \/ odd)
    IN  IF up THEN add_at(cut, last, unit) ELSE cut

\* Long division: the next n limbs of rem / d, for rem < d.
RECURSIVE div_limbs(_, _, _)
div_limbs(rem, d, n) ==
    IF n = 0 THEN <<>>
    ELSE <<(rem * Limb) \div d>> \o div_limbs((rem * Limb) % d, d, n - 1)

\* The remainder left after those n limbs.
RECURSIVE div_rem(_, _, _)
div_rem(rem, d, n) ==
    IF n = 0 THEN rem ELSE div_rem((rem * Limb) % d, d, n - 1)

\* The least shift with a * 2^shift >= b.
RECURSIVE shift_of(_, _)
shift_of(a, b) == IF a >= b THEN 0 ELSE 1 + shift_of(2 * a, b)

\* videos_processed / total_videos (task.py:152): the true division of two
\* ints 0 < a <= b, correctly rounded.  a * 2^shift / b is in [1, 2); its
\* integer part and the limbs of its fraction are the first 53 bits of the
\* quotient, and twice the remainder against b decides the rounding.
true_divide(a, b) ==
    LET shift == shift_of(a, b)
        scaled == a * Pow2(shift)
        limbs == <<scaled \div b>> \o div_limbs(scaled % b, b, LimbCount)
        rem == div_rem(scaled % b, b, LimbCount)
        up == \/ 2 * rem > b
              \/ 2 * rem = b /\ limbs[LimbCount + 1] % 2 = 1
    IN  [limbs |-> IF up THEN add_at(limbs, LimbCount + 1, 1) ELSE limbs,
         shift |-> shift]

\* The integer limbs times a small int m, from the n-th limb up.
RECURSIVE times_limbs(_, _, _, _)
times_limbs(limbs, n, m, carry) ==
    IF n = 1 THEN [limbs EXCEPT ![1] = @ * m + carry]
    ELSE times_limbs([limbs EXCEPT ![n] = (@ * m + carry) % Limb], n - 1, m,
                     (limbs[n] * m + carry) \div Limb)

\* x * 100 (task.py:152) for a positive float x and the int 100, which is
\* converted to 100.0 exactly: the exact product, rounded to 53 bits.
float_times(x, m) ==
    LET product == times_limbs(x.limbs, LimbCount + 1, m, 0)
        dropped == bit_length(product[1]) - 1
    IN  [limbs |-> round_nearest_even(product, dropped, FALSE), shift |-> x.shift]

\* int(x) (task.py:152) for a positive float x: the bits in front of the
\* binary point.
float_int(x) == x.limbs[1] \div Pow2(x.shift)

\* int((videos_processed / self.total_videos) * 100) (task.py:152); 0 / n is
\* 0.0, and so is 0.0 * 100.
percent(videos_processed, total_videos) ==
    IF videos_processed = 0 THEN 0
    ELSE float_int(float_times(true_divide(videos_processed, total_videos), 100))

\* Largest number of videos a scrape returns in the progress computation.
MaxTotal == 50

\* TaskStep (models/task.py:27-33)
INITIALIZING == "initializing"
SCRAPING == "scraping"
DOWNLOADING == "downloading"
TRANSCRIBING == "transcribing"
FINALIZING == "finalizing"
NoStep == "none"
NoFile == "none"

\* The row of the job followed item by item, with the column defaults
\* (models/task.py:56-79): the columns of NewTask and current_step, the
\* counts, progress, result_file and analysis_status.  started_at,
\* estimated_remaining and analysis_report are written and not read.
NewJob ==
    [exists |-> TRUE, status |-> PENDING, error_message |-> NoMsg,
     completed_at |-> NullTime, current_step |-> INITIALIZING, progress |-> 0,
     total_videos |-> 0, videos_processed |-> 0, videos_success |-> 0,
     videos_failed |-> 0, result_file |-> NoFile, analysis_status |-> "pending"]

\* AnalysisTask.update_status(status, step, error_message=...) on that row
\* (models/task.py:126-143): update_status with the step column.
update_status_step(r, status, step, error_message) ==
    [update_status(r, status, error_message) EXCEPT
        !.current_step = IF step # NoStep THEN step ELSE @]

\* AnalysisTask.update_progress (models/task.py:145-166).
update_progress(r, videos_processed, videos_success, videos_failed) ==
    [r EXCEPT !.videos_processed = videos_processed,
              !.videos_success = videos_success,
              !.videos_failed = videos_failed,
              !.progress = IF r.total_videos > 0
                           THEN percent(videos_processed, r.total_videos)
                           ELSE @]

\* count_item with a failure left out of failed_count.
count_item_uncounted(w, success) ==
    [w EXCEPT !.processed_count = @ + 1,
              !.success_count = IF success THEN @ + 1 ELSE @]

\* The counters of _transcribe_videos after one more video (task_manager.py:
\* 322-323, 330-331, 362, 369, 377-381, 403-404).
count_item(w, success) ==
    [w EXCEPT !.processed_count = @ + 1,
              !.success_count = IF success THEN @ + 1 ELSE @,
              !.failed_count = IF success THEN @ ELSE @ + 1]

\* _transcribe_videos entered for a job whose scrape returned total_videos
\* videos (task_manager.py:284-285, 300-305).
ProgressInit ==
    /\ max_concurrent_tasks = 1
    /\ running_tasks = {}
    /\ task_queue = <<>>
    /\ threads = EmptyBag
    /\ tasks = [t \in Tasks |-> NewTask]
    /\ accepted = {}
    /\ spawned = 0
    /\ task \in {[update_status_step(NewJob, RUNNING, TRANSCRIBING, NoMsg)
                     EXCEPT !.total_videos = n] : n \in 1..MaxTotal}
    /\ video_data = NoVideos
    /\ worker = [pc |-> "count", processed_count |-> 0, success_count |-> 0,
                 failed_count |-> 0]
    /\ retry = NoRetry

\* One more video has been handled and the progress is written
\* (task_manager.py:381-384).
ProgressItem ==
    /\ worker.pc = "count"
    /\ worker.processed_count < task.total_videos
    /\ \E success \in BOOLEAN :
          LET w == count_item(worker, success)
          IN  /\ worker' = w
              /\ task' = update_progress(task, w.processed_count, w.success_count,
                                         w.failed_count)
    /\ UNCHANGED <<max_concurrent_tasks, running_tasks, task_queue, threads,
                   tasks, accepted, spawned, video_data, retry>>

ProgressNext == ProgressItem

ProgressSpec == ProgressInit /\ [][ProgressNext]_vars

\* C15: for a job with discovered > 0, progress is the integer part of
\* processed / discovered * 100 as of the last progress update, processed is
\* at most discovered, and progress is between 0 and 100.
C15_ProgressIsPercentage ==
    (task.exists /\ task.total_videos > 0) =>
        /\ task.progress = (task.videos_processed * 100) \div task.total_videos
        /\ task.videos_processed <= task.total_videos
        /\ task.progress >= 0
        /\ task.progress <= 100

\* --------------------------------- one job's pipeline, stage by stage
\* Largest number of videos a scrape returns.
MaxVideos == 2

PcReturned == "returned"      \* the worker has left _execute_task_with_app

\* videos_found with an empty list accepted.
videos_found_empty(n) == n >= 0

\* `if not videos` (task_manager.py:109) for a list of length n: FALSE raises.
videos_found(n) == n > 0

\* AnalysisTask.set_analysis_report and set_result_file (models/task.py:
\* 168-180).
set_analysis_report(r, status) == [r EXCEPT !.analysis_status = status]
set_result_file(r, filename) == [r EXCEPT !.result_file = filename]

\* perform_ai_analysis with the except clause writing 'completed'.
perform_ai_analysis_completed(r, raised) == set_analysis_report(r, "completed")

\* _perform_ai_analysis (task_manager.py:415-454): raised is whether the try
\* block raises.  A failure of the DeepSeek request does not raise: the
\* analyzer returns a default report (deepseek_analyzer.py:51-57) and the
\* column is written 'completed'.
perform_ai_analysis(r, raised) ==
    set_analysis_report(r, IF raised THEN "failed" ELSE "completed")

\* A worker thread enters _execute_task_with_app for the job
\* (task_manager.py:84-88).  videos is len(videos) of the current execution
\* of the pipeline (-1 before the first scrape), i the number of videos the
\* loop of _transcribe_videos has handled, empty_scrapes the number of
\* executions whose scrape returned no video, analysis_raised whether the
\* last analysis raised.  The job's rows in video_data are followed in
\* TranscribeSpec.
PipelineInit ==
    /\ max_concurrent_tasks = 1
    /\ running_tasks = {}
    /\ task_queue = <<>>
    /\ threads = EmptyBag
    /\ tasks = [t \in Tasks |-> NewTask]
    /\ accepted = {}
    /\ spawned = 0
    /\ task = NewJob
    /\ video_data = NoVideos
    /\ worker = [pc |-> PcBegin, retry_count |-> 0, videos |-> -1, i |-> 0,
                 processed_count |-> 0, success_count |-> 0, failed_count |-> 0,
                 empty_scrapes |-> 0, analysis_raised |-> FALSE]
    /\ retry = NoRetry

scheduler_vars ==
    <<max_concurrent_tasks, running_tasks, task_queue, threads, tasks, accepted,
      spawned>>

\* Lines 92-105: the row is written RUNNING / INITIALIZING.  The writes of
\* the job's row commit.
PipelineBegin ==
    /\ worker.pc = PcBegin
    /\ task' = update_status_step(
                  IF worker.retry_count > 0
                  THEN update_status_step(task, RUNNING, INITIALIZING, MsgRetry)
                  ELSE task,
                  RUNNING, INITIALIZING, NoMsg)
    /\ worker' = [worker EXCEPT !.pc = PcScrape]
    /\ UNCHANGED <<video_data, retry>>
    /\ UNCHANGED scheduler_vars

\* The row after _scrape_videos (task_manager.py:215-294) has returned n
\* videos: SCRAPING, total_videos and the progress reset; nothing but the
\* step is written when it has raised and returned [] (lines 291-294).
scraped_row(r, raised, n) ==
    LET scraping == update_status_step(r, RUNNING, SCRAPING, NoMsg)
    IN  IF raised THEN scraping
        ELSE update_progress([scraping EXCEPT !.total_videos = n], 0, 0, 0)

\* The worker and the row at the top of _transcribe_videos (task_manager.py:
\* 300-305).
transcribe_enter(w) ==
    [w EXCEPT !.pc = IF w.videos = 0 THEN PcSave ELSE PcTranscribe, !.i = 0,
              !.processed_count = 0, !.success_count = 0, !.failed_count = 0]

\* Lines 108-123 and 300-305: the scrape; with videos the row is written
\* DOWNLOADING and, when the job has enable_transcription, _transcribe_videos
\* is entered; without videos line 110 raises.
PipelineScrape ==
    /\ worker.pc = PcScrape
    /\ \E raised \in BOOLEAN, n \in 0..MaxVideos, enable_transcription \in BOOLEAN :
          LET len == IF raised THEN 0 ELSE n
              scraped == scraped_row(task, raised, n)
              w == [worker EXCEPT !.videos = len]
              downloading == update_status_step([scraped EXCEPT !.total_videos = len],
                                                RUNNING, DOWNLOADING, NoMsg)
          IN  /\ raised => (n = 0)
              /\ ~videos_found(len) => enable_transcription
              /\ IF videos_found(len)
                 THEN IF enable_transcription
                      THEN /\ task' = update_status_step(downloading, RUNNING,
                                                         TRANSCRIBING, NoMsg)
                           /\ worker' = transcribe_enter(w)
                      ELSE /\ task' = downloading
                           /\ worker' = [w EXCEPT !.pc = PcSave]
                 ELSE /\ task' = except_row(w, scraped, TRUE)
                      /\ worker' = [except_thread(w, TRUE) EXCEPT !.empty_scrapes = @ + 1]
    /\ UNCHANGED <<video_data, retry>>
    /\ UNCHANGED scheduler_vars

\* The loop left after the first video it handles.
next_item_break(w) == [w EXCEPT !.i = @ + 1, !.pc = PcSave]

\* The position of the worker after the loop body has handled a video.
next_item(w) ==
    [w EXCEPT !.i = @ + 1, !.pc = IF w.i + 1 = w.videos THEN PcSave ELSE PcTranscribe]

\* One pass through the loop body of _transcribe_videos (task_manager.py:
\* 307-406): the video is counted as a success or as a failure and the
\* progress is written.
PipelineItem ==
    /\ worker.pc = PcTranscribe
    /\ worker.i < worker.videos
    /\ \E success \in BOOLEAN :
          /\ worker' = next_item(count_item(worker, success))
          /\ task' = update_progress(task, worker'.processed_count,
                                     worker'.success_count, worker'.failed_count)
    /\ UNCHANGED <<video_data, retry>>
    /\ UNCHANGED scheduler_vars

\* Lines 126-133 with _save_results (456-499): FINALIZING, the analysis, the
\* result file; with the file the row is written COMPLETED and the loop is
\* left, without it line 133 raises.
PipelineSave ==
    /\ worker.pc = PcSave
    /\ \E raised \in BOOLEAN, saved \in BOOLEAN :
        LET analysed == perform_ai_analysis(
                            update_status_step(task, RUNNING, FINALIZING, NoMsg), raised)
            w == [worker EXCEPT !.analysis_raised = raised]
        IN  IF saved
            THEN /\ task' = update_status_step(set_result_file(analysed, "file"),
                                               COMPLETED, NoStep, NoMsg)
                 /\ worker' = [w EXCEPT !.pc = PcFinally]
            ELSE /\ task' = except_row(w, analysed, TRUE)
                 /\ worker' = except_thread(w, TRUE)
    /\ UNCHANGED <<video_data, retry>>
    /\ UNCHANGED scheduler_vars

\* The finally clause (task_manager.py:151-159) and what follows it: the
\* next pass of the while loop after the sleep, the return after a break.
\* The job is not in running_tasks and the queue is empty.
PipelineFinally ==
    /\ worker.pc \in {PcSleep, PcFinally}
    /\ worker' = [worker EXCEPT !.pc = IF worker.pc = PcSleep THEN PcBegin
                                       ELSE PcReturned]
    /\ UNCHANGED <<task, video_data, retry>>
    /\ UNCHANGED scheduler_vars

PipelineNext ==
    \/ PipelineBegin
    \/ PipelineScrape
    \/ PipelineItem
    \/ PipelineSave
    \/ PipelineFinally

PipelineSpec == PipelineInit /\ [][PipelineNext]_vars

C13_AnalysisFailureNotFatal ==
    /\ []((worker.analysis_raised /\ task.result_file # NoFile) =>
            /\ task.status = COMPLETED
            /\ task.analysis_status = "failed"
            /\ task.error_message # MsgFailed)
    /\ [][(worker.pc = PcSave /\ worker'.analysis_raised /\ task'.result_file # NoFile)
            => task'.error_message = task.error_message]_vars

C13_Witness ==
    /\ worker.pc = PcReturned
    /\ worker.analysis_raised
    /\ worker.success_count = MaxVideos
    /\ worker.failed_count = 0
    /\ task.status = COMPLETED
    /\ task.result_file # NoFile
    /\ task.analysis_status = "failed"

\* ------------------------------ _transcribe_videos, video by video
\* config.py:42  MAX_RETRY_COUNT, the max_retries of the transcriber's
\* RetryManager (transcriber.py:21-29)
MAX_RETRY_COUNT == 10
\* video.py:181  the default max_retries of VideoData.can_retry
can_retry_max_retries == 10

\* The error texts written to a video_data row, by their kind.
MsgDownload == "download"     \* transcriber.py:464  "视频下载失败"
MsgTranscribe == "transcribe" \* transcriber.py:447  the transcription error
MsgException == "exception"   \* task_manager.py:397  str(e)

\* VideoData.can_retry (video.py:181-183).
can_retry(v, limit) == v.retry_count < limit /\ v.processing_status = "failed"

\* VideoData.set_transcription_result (video.py:154-163).
set_transcription_result(v) == [v EXCEPT !.processing_status = "completed"]

\* A failure recorded on row v as lines 367-368 and 397-398 record it.
record_failure(v, error_message) ==
    video_update_status(add_retry_error(v, error_message, 0), "failed", error_message)

\* Row v after a failure has been recorded n times.
RECURSIVE failed_row(_, _)
failed_row(v, n) ==
    IF n = 0 THEN v ELSE record_failure(failed_row(v, n - 1), MsgException)

\* VideoData.query.filter_by(task_id=..., video_id=...).first() (task_manager.py:
\* 315-318): video_data is kept by video, the row of a video being the oldest
\* one the table has for it; the result is the video's position, 0 for None.
query_first(rows, video_id) ==
    IF video_id \in DOMAIN rows /\ rows[video_id].exists THEN video_id ELSE 0

\* transcriber.process_video (transcriber.py:457-488): retry is called with
\* _process_video_internal, whose download fails on its first downloads_failed
\* invocations (and raises, line 464); transcribe_video does not raise, it
\* returns its failure (transcriber.py:446-455), which is the value "v2".
RECURSIVE process_video(_, _, _)
process_video(r, downloads_failed, transcribed) ==
    IF r.state # "loop" THEN r
    ELSE IF downloads_failed > 0
    THEN process_video(retry_attempt(r, TRUE, NoValue), downloads_failed - 1,
                       transcribed)
    ELSE retry_attempt(r, FALSE, IF transcribed THEN "v1" ELSE "v2")

\* result.get("success") and result.get("error") of what process_video
\* returns when its retry call has ended as r.
result_success(r) == r.state = "returned" /\ r.value = "v1"
result_error(r) == IF r.state = "raised" THEN MsgDownload ELSE MsgTranscribe

\* The number of failures the rows of a job carry from earlier executions
\* of its pipeline.
PriorFailures == {1, can_retry_max_retries - 1, can_retry_max_retries}

\* The rows a video of the job can have when _transcribe_videos is entered:
\* none (its insert failed, task_manager.py:278-281), the new row, and the
\* rows earlier executions of the pipeline have left.
ItemRows ==
    {[NewVideo EXCEPT !.exists = FALSE], NewVideo, set_transcription_result(NewVideo)}
        \cup {failed_row(NewVideo, n) : n \in PriorFailures}

\* _transcribe_videos is entered with a list of 1..MaxVideos videos
\* (task_manager.py:296-305).  video_record is the position of the row the
\* local variable is bound to, 0 when it is None or not bound yet.
TranscribeInit ==
    /\ max_concurrent_tasks = 1
    /\ running_tasks = {}
    /\ task_queue = <<>>
    /\ threads = EmptyBag
    /\ tasks = [t \in Tasks |-> NewTask]
    /\ accepted = {}
    /\ spawned = 0
    /\ \E n \in 1..MaxVideos :
          /\ task = update_status_step([NewJob EXCEPT !.total_videos = n],
                                       RUNNING, TRANSCRIBING, NoMsg)
          /\ video_data \in [1..n -> ItemRows]
          /\ worker = [pc |-> PcTranscribe, videos |-> n, i |-> 0,
                       processed_count |-> 0, success_count |-> 0,
                       failed_count |-> 0, video_record |-> 0]
    /\ retry = NoRetry

\* The end of a pass through the loop body: the video is counted and the
\* progress written (task_manager.py:322-324, 330-332, 381-384, 403-405).
item_counted(w, success) ==
    /\ worker' = next_item(count_item(w, success))
    /\ task' = update_progress(task, worker'.processed_count,
                               worker'.success_count, worker'.failed_count)

\* Lines 309-318 raise before video_record is bound anew: the except clause
\* (391-406) records the failure on the row video_record is still bound to
\* from the pass before (line 396); write_ok FALSE is the db_error of 399-401.
ItemLookupRaises ==
    /\ worker.pc = PcTranscribe
    /\ worker.i < worker.videos
    /\ \E write_ok \in BOOLEAN :
          /\ (worker.video_record = 0) => write_ok
          /\ video_data' = IF worker.video_record # 0 /\ write_ok
                           THEN [video_data EXCEPT ![worker.video_record] =
                                     record_failure(@, MsgException)]
                           ELSE video_data
    /\ retry' = NoRetry
    /\ item_counted(worker, FALSE)
    /\ UNCHANGED scheduler_vars

\* Lines 315-325: the video has no row.
ItemMissing ==
    /\ worker.pc = PcTranscribe
    /\ worker.i < worker.videos
    /\ query_first(video_data, worker.i + 1) = 0
    /\ video_data' = video_data
    /\ retry' = NoRetry
    /\ item_counted([worker EXCEPT !.video_record = 0], FALSE)
    /\ UNCHANGED scheduler_vars

\* Lines 315-333: the video's row is failed and cannot be retried.
ItemSkipped ==
    /\ worker.pc = PcTranscribe
    /\ worker.i < worker.videos
    /\ LET k == query_first(video_data, worker.i + 1)
       IN  /\ k # 0
           /\ video_data[k].processing_status = "failed"
           /\ ~can_retry(video_data[k], can_retry_max_retries)
           /\ item_counted([worker EXCEPT !.video_record = k], FALSE)
    /\ video_data' = video_data
    /\ retry' = NoRetry
    /\ UNCHANGED scheduler_vars

\* Lines 315-384: process_video is called and its result recorded on the
\* row; write_ok FALSE is the db_error of lines 371-379.
ItemProcessed ==
    /\ worker.pc = PcTranscribe
    /\ worker.i < worker.videos
    /\ LET k == query_first(video_data, worker.i + 1)
       IN  /\ k # 0
           /\ ~(/\ video_data[k].processing_status = "failed"
                /\ ~can_retry(video_data[k], can_retry_max_retries))
           /\ \E downloads_failed \in {0, 1, MAX_RETRY_COUNT + 1},
                 transcribed \in BOOLEAN, write_ok \in BOOLEAN :
                LET called == process_video(retry_enter(MAX_RETRY_COUNT),
                                            downloads_failed, transcribed)
                IN  /\ (downloads_failed > MAX_RETRY_COUNT) => transcribed
                    /\ retry' = called
                    /\ video_data' =
                          IF ~write_ok THEN video_data
                          ELSE IF result_success(called)
                          THEN [video_data EXCEPT ![k] = set_transcription_result(@)]
                          ELSE [video_data EXCEPT ![k] =
                                    record_failure(@, result_error(called))]
                    /\ item_counted([worker EXCEPT !.video_record = k],
                                    result_success(called))
    /\ UNCHANGED scheduler_vars

TranscribeNext ==
    \/ ItemLookupRaises
    \/ ItemMissing
    \/ ItemSkipped
    \/ ItemProcessed

TranscribeSpec == TranscribeInit /\ [][TranscribeNext]_vars

\* C14: after every progress update written to the job's row, processed =
\* succeeded + failed, whatever the number of videos and the outcome of each
\* (success, reported failure, raised exception, missing row, skipped video,
\* failed write of the video's row); the loop's counters agree with the row.
C14_ProcessedIsSuccessPlusFailed ==
    /\ task.videos_processed = task.videos_success + task.videos_failed
    /\ worker.pc \in {PcTranscribe, PcSave} =>
          /\ task.videos_processed = worker.processed_count
          /\ task.videos_success = worker.success_count
          /\ task.videos_failed = worker.failed_count
          /\ worker.processed_count = worker.i

C14_Witness ==
    /\ worker.pc = PcSave
    /\ task.videos_processed = 2
    /\ task.videos_success = 1
    /\ task.videos_failed = 1
    /\ retry.state = "raised"

\* The pass through the loop body that a step makes handles video k.
Handles(k) == worker.pc = PcTranscribe /\ worker.i + 1 = k

\* C17: within one execution of the pipeline a video's row is written
\* 'failed' only by the pass that handles that video and only after the
\* retry call of process_video has invoked the processing max_retries + 1
\* times, every one of them failing.
C17_FailedOnlyAfterRetriesExhausted ==
    [][\A k \in DOMAIN video_data :
          (video_data'[k] # video_data[k] /\ video_data'[k].processing_status = "failed")
             => /\ Handles(k)
                /\ retry'.state = "raised"
                /\ retry'.calls = MAX_RETRY_COUNT + 1]_vars

\* C18: a video whose row is failed with retry_count >= 10 is not passed to
\* process_video; the pass that handles it counts it once as processed and
\* once as failed; its row stays as it is during the execution of the
\* pipeline.  A video whose row is failed with retry_count < 10 is passed to
\* process_video by the pass that looks its row up.
C18_SkipRule ==
    [][\A k \in DOMAIN video_data :
          /\ (/\ video_data[k].exists
              /\ video_data[k].processing_status = "failed"
              /\ video_data[k].retry_count >= can_retry_max_retries)
                => /\ video_data'[k] = video_data[k]
                   /\ Handles(k) =>
                         /\ retry' = NoRetry
                         /\ worker'.processed_count = worker.processed_count + 1
                         /\ worker'.failed_count = worker.failed_count + 1
                         /\ worker'.success_count = worker.success_count
          /\ (/\ video_data[k].exists
              /\ video_data[k].processing_status = "failed"
              /\ video_data[k].retry_count < can_retry_max_retries
              /\ Handles(k)
              /\ worker'.video_record = k)
                => retry' # NoRetry]_vars

\* ------------------------------------- utils/retry.py calculate_delay
\* Largest base_delay, backoff_factor and max_delay of a RetryConfig, and
\* the largest attempt index calculate_delay is called with.
MaxBase == 2
MaxFactor == 2
MaxDelay == 60
MaxAttempt == 10

\* retry.py:41  random.uniform(0.1, 0.3), in hundredths: the two ends of the
\* range and its middle stand for the draws
JitterLow == 10
JitterHigh == 30
Uniform == {JitterLow, (JitterLow + JitterHigh) \div 2, JitterHigh}

\* RetryConfig() (retry.py:15-17) with the defaults 2.0, 60.0, 2.0, True.
DefaultConfig ==
    [base_delay |-> 2, max_delay |-> 60, backoff_factor |-> 2, jitter |-> TRUE]

\* x ** n (retry.py:34) for a whole x >= 1 and n >= 0.
RECURSIVE power(_, _)
power(x, n) == IF n = 0 THEN 1 ELSE x * power(x, n - 1)

\* delay after lines 34 and 37 of calculate_delay: the exponential backoff
\* cut at max_delay, in seconds.
backoff(config, attempt) ==
    LET delay == config.base_delay * power(config.backoff_factor, attempt)
    IN  IF delay < config.max_delay THEN delay ELSE config.max_delay

\* calculate_delay with the jitter drawn from a range ten times as wide.
calculate_delay_wide(config, attempt, uniform) ==
    LET delay == backoff(config, attempt)
    IN  IF config.jitter THEN 100 * delay + 10 * uniform * delay ELSE 100 * delay

\* RetryManager.calculate_delay (retry.py:31-44) with random.uniform
\* returning uniform / 100; the result is in hundredths of a second.
calculate_delay(config, attempt, uniform) ==
    LET delay == backoff(config, attempt)
    IN  IF config.jitter THEN 100 * delay + uniform * delay ELSE 100 * delay

\* The RetryConfig values a RetryManager is built with.
RetryConfigs ==
    [base_delay : 1..MaxBase, max_delay : 1..MaxDelay,
     backoff_factor : 1..MaxFactor, jitter : BOOLEAN]

\* A RetryManager whose retry loop has not computed a delay yet: attempt is
\* the index the next delay is computed for, delay the last delay computed
\* and previous the one before it (-1: none).
DelayInit ==
    /\ max_concurrent_tasks = 1
    /\ running_tasks = {}
    /\ task_queue = <<>>
    /\ threads = EmptyBag
    /\ tasks = [t \in Tasks |-> NewTask]
    /\ accepted = {}
    /\ spawned = 0
    /\ task = NoTask
    /\ video_data = NoVideos
    /\ worker = NoWorker
    /\ retry \in {[state |-> "delay", config |-> c, attempt |-> 0, delay |-> -1,
                   previous |-> -1] : c \in RetryConfigs}

\* The operation has failed once more and the loop computes the delay of
\* this attempt (retry.py:73-74).
CalculateDelay ==
    /\ retry.state = "delay"
    /\ retry.attempt <= MaxAttempt
    /\ \E uniform \in Uniform :
          retry' = [retry EXCEPT
                      !.attempt = @ + 1,
                      !.previous = retry.delay,
                      !.delay = calculate_delay(retry.config, retry.attempt, uniform)]
    /\ UNCHANGED <<max_concurrent_tasks, running_tasks, task_queue, threads,
                   tasks, accepted, spawned, task, video_data, worker>>

DelayNext == CalculateDelay

DelaySpec == DelayInit /\ [][DelayNext]_vars

\* C21: every delay calculate_delay computes is at least 0 and at most
\* max_delay * (1 + 0.3), for every attempt index and every jitter draw.
C21_DelayWithinBounds ==
    (retry.state = "delay" /\ retry.attempt > 0) =>
        /\ retry.delay >= 0
        /\ retry.delay <= retry.config.max_delay * (100 + JitterHigh)

C21_Witness ==
    /\ retry.state = "delay"
    /\ retry.config = DefaultConfig
    /\ retry.attempt = 6
    /\ retry.delay = 60 * (100 + JitterHigh)

\* The last two delays computed are those of the consecutive attempt
\* indices attempt - 2 and attempt - 1.
Consecutive == retry.state = "delay" /\ retry.attempt >= 2

\* C24 as stated: for consecutive attempt indices k and k+1 the delay is
\* non-decreasing for every jitter draw, as long as the un-jittered delay of
\* attempt k is below max_delay (base_delay > 0, backoff_factor >= 1,
\* max_delay >= base_delay).
C24_DelayNonDecreasing ==
    (/\ Consecutive
     /\ retry.config.max_delay >= retry.config.base_delay
     /\ backoff(retry.config, retry.attempt - 2) < retry.config.max_delay)
        => retry.previous <= retry.delay

\* C24 amended: the delay of attempt k+1 is never below 1.1 / 1.3 of the
\* delay of attempt k; it is not below the delay of attempt k itself when
\* the jitter is off, when backoff_factor >= 2 and the backoff of attempt
\* k+1 is not cut at max_delay, and under the default configuration while
\* the un-jittered delay of attempt k is below max_delay.
C24_DelayNonDecreasingUpToJitter ==
    Consecutive =>
        /\ (100 + JitterHigh) * retry.delay >= (100 + JitterLow) * retry.previous
        /\ ~retry.config.jitter => retry.previous <= retry.delay
        /\ (/\ retry.config.backoff_factor >= 2
            /\ retry.config.base_delay
                 * power(retry.config.backoff_factor, retry.attempt - 1)
                 <= retry.config.max_delay)
              => retry.previous <= retry.delay
        /\ (/\ retry.config = DefaultConfig
            /\ backoff(retry.config, retry.attempt - 2) < retry.config.max_delay)
              => retry.previous <= retry.delay

C24_Witness ==
    /\ Consecutive
    /\ retry.config = DefaultConfig
    /\ retry.attempt = 6
    /\ retry.previous = 32 * (100 + JitterHigh)
    /\ retry.delay = 60 * (100 + JitterLow)

\* ------------------------------- the rows of video_data across re-runs
\* The videos the scraper can find on the blogger's page.
VideoIds == 1..MaxVideos

\* VideoData.create_video (video.py:165-175): a new row of the table, with
\* the column defaults.
create_video(task_id, video_id) ==
    [task_id |-> task_id, video_id |-> video_id, processing_status |-> "pending"]

\* The videos the scraper leaves out (scraper.py:283-284, 315-319): the
\* lookup is not part of models/video.py; it is taken to return the videos
\* with a row whose processing has completed.
analyzed_video_ids(rows) ==
    {rows[k].video_id : k \in {j \in DOMAIN rows : rows[j].processing_status = "completed"}}

\* The list scrape_videos returns for the set found of videos: page order.
RECURSIVE page_order(_)
page_order(found) ==
    IF found = {} THEN <<>>
    ELSE LET first == CHOOSE v \in found : \A other \in found : v <= other
         IN  <<first>> \o page_order(found \ {first})

\* The table after the loop of _scrape_videos (task_manager.py:262-281): a
\* row is added and committed for every video of the list.
RECURSIVE save_videos(_, _, _)
save_videos(rows, task_id, videos) ==
    IF videos = <<>> THEN rows
    ELSE save_videos(Append(rows, create_video(task_id, Head(videos))),
                     task_id, Tail(videos))

\* The table after _transcribe_videos (task_manager.py:307-406) has handled
\* the videos of the set handled, those of succeeded with success: the row
\* written is the one filter_by(...).first() returns (lines 315-318), the
\* oldest row of the video.
transcribed_videos(rows, handled, succeeded) ==
    [k \in DOMAIN rows |->
        IF /\ rows[k].video_id \in handled
           /\ \A j \in 1..(k - 1) : rows[j].video_id # rows[k].video_id
        THEN [rows[k] EXCEPT !.processing_status =
                 IF rows[k].video_id \in succeeded THEN "completed" ELSE "failed"]
        ELSE rows[k]]

\* One job, admitted and about to be executed by its worker; the table has
\* no row of the job.
RerunInit ==
    /\ max_concurrent_tasks = 1
    /\ running_tasks = {}
    /\ task_queue = <<>>
    /\ threads = EmptyBag
    /\ tasks = [t \in Tasks |-> NewTask]
    /\ accepted = {}
    /\ spawned = 0
    /\ task = NewJob
    /\ video_data = NoVideos
    /\ worker \in {[pc |-> PcBegin, retry_count |-> 0, videos |-> {},
                    enable_transcription |-> e] : e \in BOOLEAN}
    /\ retry = NoRetry

\* Lines 92-119 with _scrape_videos (215-294): the row of the job is written
\* RUNNING, the scraper returns the videos of found, a row is added for
\* each, and the job goes on to DOWNLOADING; without videos line 110 raises.
RerunScrape ==
    /\ worker.pc = PcBegin
    /\ \E found \in SUBSET (VideoIds \ analyzed_video_ids(video_data)) :
          LET begun == update_status_step(
                          IF worker.retry_count > 0
                          THEN update_status_step(task, RUNNING, INITIALIZING, MsgRetry)
                          ELSE task,
                          RUNNING, INITIALIZING, NoMsg)
              scraped == [update_status_step(begun, RUNNING, SCRAPING, NoMsg)
                            EXCEPT !.total_videos = Cardinality(found)]
              w == [worker EXCEPT !.videos = found]
          IN  /\ video_data' = save_videos(video_data, 1, page_order(found))
              /\ IF found # {}
                 THEN /\ task' = update_status_step(scraped, RUNNING, DOWNLOADING, NoMsg)
                      /\ worker' = [w EXCEPT !.pc = IF w.enable_transcription
                                                   THEN PcTranscribe ELSE PcSave]
                 ELSE /\ task' = except_row(w, scraped, TRUE)
                      /\ worker' = except_thread(w, TRUE)
    /\ UNCHANGED retry
    /\ UNCHANGED scheduler_vars

\* Lines 121-123 with _transcribe_videos (296-410): every video of the list
\* is handled, with success or not, and its row is written.
RerunTranscribe ==
    /\ worker.pc = PcTranscribe
    /\ \E succeeded \in SUBSET worker.videos :
          video_data' = transcribed_videos(video_data, worker.videos, succeeded)
    /\ task' = update_status_step(task, RUNNING, TRANSCRIBING, NoMsg)
    /\ worker' = [worker EXCEPT !.pc = PcSave]
    /\ UNCHANGED retry
    /\ UNCHANGED scheduler_vars

\* Lines 126-149 with _save_results (456-499): with the result file the job
\* is COMPLETED, without it line 133 raises.
RerunSave ==
    /\ worker.pc = PcSave
    /\ \E saved \in BOOLEAN :
          LET finalizing == update_status_step(task, RUNNING, FINALIZING, NoMsg)
          IN  IF saved
              THEN /\ task' = update_status_step(set_result_file(finalizing, "file"),
                                                 COMPLETED, NoStep, NoMsg)
                   /\ worker' = [worker EXCEPT !.pc = PcFinally]
              ELSE /\ task' = except_row(worker, finalizing, TRUE)
                   /\ worker' = except_thread(worker, TRUE)
    /\ UNCHANGED <<video_data, retry>>
    /\ UNCHANGED scheduler_vars

\* The finally clause (task_manager.py:151-159) and what follows it: the
\* next pass of the while loop after the sleep, the return after a break.
RerunFinally ==
    /\ worker.pc \in {PcSleep, PcFinally}
    /\ worker' = [worker EXCEPT !.pc = IF worker.pc = PcSleep THEN PcBegin
                                       ELSE PcReturned]
    /\ UNCHANGED <<task, video_data, retry>>
    /\ UNCHANGED scheduler_vars

RerunNext ==
    \/ RerunScrape
    \/ RerunTranscribe
    \/ RerunSave
    \/ RerunFinally

RerunSpec == RerunInit /\ [][RerunNext]_vars

\* C22: the table holds at most one row per (job id, video id), also after
\* the pipeline was re-run for the job following a failure that occurred
\* after the scrape had saved rows.
C22_OneRecordPerVideo ==
    \A j, k \in DOMAIN video_data :
        (/\ video_data[j].task_id = video_data[k].task_id
         /\ video_data[j].video_id = video_data[k].video_id) => j = k

\* ---------------------------------------------- the scheduler, continued
\* C23: cancel_task for an id that is neither in running_tasks nor in
\* task_queue returns False and leaves running_tasks and task_queue as they
\* were, called on its own or by the cancel endpoint.
C23_CancelUntrackedIsNoop ==
    [][\A t \in Tasks :
          (/\ t \notin running_tasks
           /\ t \notin QueuedIds
           /\ (cancel_task(t) \/ api_cancel_task(t)))
             => /\ ~cancel_result(t)
                /\ running_tasks' = running_tasks
                /\ task_queue' = task_queue]_vars

\* The cancel endpoint has acted on a job that was never submitted to the
\* scheduler while another job is in running_tasks.
C23_Witness ==
    \E t \in Tasks :
        /\ t \notin accepted
        /\ t \notin running_tasks
        /\ t \notin QueuedIds
        /\ tasks[t].status = FAILED
        /\ tasks[t].error_message = MsgCancel
        /\ running_tasks # {}

\* C25: between the steps of the scheduler (its lock is free), a non-empty
\* task_queue implies that running_tasks holds exactly
\* max_concurrent_tasks jobs.
C25_NoFreeSlotWhileQueued ==
    task_queue # <<>> => Cardinality(running_tasks) = max_concurrent_tasks

C27_ActiveSetWithinCapacity == Cardinality(running_tasks) <= max_concurrent_tasks

\* The active set is full again after a queued job was promoted into the
\* slot a worker released, and a job waits.
C27_Witness ==
    /\ Cardinality(running_tasks) = max_concurrent_tasks
    /\ task_queue # <<>>
    /\ spawned >= 2

\* C28: the id of a job whose worker has not returned is in running_tasks,
\* also while the worker waits before it runs the pipeline again and while
\* it runs it again.
C28_LiveWorkerHoldsSlot == WorkerTasks \subseteq running_tasks

\* ------------------------------------------------ the endpoints of api/tasks.py
\* TaskManager() (task_manager.py:23-28): a scheduler with nothing running
\* and nothing queued.
TaskManager ==
    [running |-> {}, queue |-> <<>>, threads |-> EmptyBag, spawned |-> 0]

\* TaskManager.get_queue_status (task_manager.py:176-185) of the scheduler s.
queue_status(s) ==
    [running_tasks |-> Cardinality(s.running),
     queued_tasks |-> Len(s.queue),
     max_concurrent |-> max_concurrent_tasks,
     running_task_ids |-> s.running,
     queued_task_ids |-> s.queue]

\* The queue-status endpoint (api/tasks.py:73-91): the answer it gives, which
\* is the status of the TaskManager it builds at line 79.
api_get_queue_status == queue_status(TaskManager)

\* The thread started by the scheduler s for task t: its target is the bound
\* method s._execute_task_with_app (task_manager.py:68-73), so it holds s,
\* of which running_tasks and task_queue are kept.
BoundThread(s, t) ==
    [task_id |-> t, pc |-> PcBegin, retry_count |-> 0,
     manager |-> [running |-> s.running, queue |-> s.queue]]

\* The rows with status RUNNING that the create endpoint counts (api/tasks.py:
\* 194-197).
running_tasks_count ==
    Cardinality({t \in Tasks : tasks[t].exists /\ tasks[t].status = RUNNING})

\* The process after import: the module-level task_manager (task_manager.py:
\* 538) is running_tasks and task_queue; no job has been created.
ApiInit ==
    /\ max_concurrent_tasks \in 1..MaxCapacity
    /\ running_tasks = {}
    /\ task_queue = <<>>
    /\ threads = EmptyBag
    /\ tasks = [t \in Tasks |-> NoTask]
    /\ accepted = {}
    /\ spawned = 0
    /\ task = NoTask
    /\ video_data = NoVideos
    /\ worker = NoWorker
    /\ retry = NoRetry

\* The create endpoint (api/tasks.py:194-236): refused with 409 when the
\* count of RUNNING rows has reached the limit; otherwise the row is added
\* with a new id and start_analysis_task is called on a TaskManager built
\* at line 232, which has nothing running and starts the job at once.
api_create_task(t) ==
    /\ ~tasks[t].exists
    /\ spawned < MaxThreads
    /\ running_tasks_count < max_concurrent_tasks
    /\ tasks' = [tasks EXCEPT ![t] = NewTask]
    /\ \E start_ok \in BOOLEAN :
          LET s == start_task_immediately(TaskManager, t, start_ok)
          IN  /\ threads' = IF start_ok THEN threads (+) SetToBag({BoundThread(s, t)})
                            ELSE threads
              /\ accepted' = IF start_ok THEN accepted \cup {t} ELSE accepted
    /\ spawned' = spawned + 1
    /\ UNCHANGED <<max_concurrent_tasks, running_tasks, task_queue>>
    /\ UNCHANGED pipeline_vars

\* The finally clause (task_manager.py:151-159) of a thread started by the
\* create endpoint: the id is removed from the running_tasks of the thread's
\* own TaskManager, whose queue is empty.
ApiWorkerFinally(th) ==
    /\ th.pc \in {PcSleep, PcFinally, PcUnwind}
    /\ LET s == release_and_promote(
                   [running |-> th.manager.running, queue |-> th.manager.queue,
                    threads |-> EmptyBag, spawned |-> 0], th.task_id, TRUE)
           released == [th EXCEPT !.manager = [running |-> s.running, queue |-> s.queue]]
       IN  threads' = IF th.pc = PcSleep
                      THEN moved(th, [released EXCEPT !.pc = PcBegin])
                      ELSE threads (-) SetToBag({th})
    /\ UNCHANGED <<max_concurrent_tasks, running_tasks, task_queue, tasks,
                   accepted, spawned>>
    /\ UNCHANGED pipeline_vars

ApiNext ==
    \/ \E t \in Tasks : api_create_task(t)
    \/ \E t \in Tasks : api_cancel_task(t)
    \/ \E th \in BagToSet(threads) : WorkerBegin(th)
    \/ \E th \in BagToSet(threads) : WorkerScrape(th)
    \/ \E th \in BagToSet(threads) : WorkerTranscribe(th)
    \/ \E th \in BagToSet(threads) : WorkerSave(th)
    \/ \E th \in BagToSet(threads) : ApiWorkerFinally(th)

ApiSpec == ApiInit /\ [][ApiNext]_vars

\* The jobs admitted through the create endpoint that are in the
\* running_tasks of the TaskManager that admitted them.
AdmittedRunning ==
    {th.task_id : th \in {x \in BagToSet(threads) : x.task_id \in x.manager.running}}

\* C29: the endpoints act on one scheduler state: a job admitted through
\* the create endpoint and running is among the running ids the queue-status
\* endpoint reports, cancel_analysis_task for it returns True, and the jobs
\* admitted by all requests together stay within max_concurrent_tasks.
C29_EndpointsShareScheduler ==
    /\ \A t \in AdmittedRunning :
          /\ t \in api_get_queue_status.running_task_ids
          /\ cancel_result(t)
    /\ api_get_queue_status.running_tasks = Cardinality(AdmittedRunning)
    /\ Cardinality(AdmittedRunning) <= max_concurrent_tasks

\* ------------------------------------------------ the worker's termination
\* The worker thread is scheduled and every call it makes returns: a step
\* of the worker that can be taken is taken.
PipelineFairSpec == PipelineSpec /\ WF_vars(PipelineNext)

====
